---- MODULE Spec2Model ----
(***************************************************************************)
(* Model of backend/app.py: the review scraping service.                   *)
(*                                                                         *)
(*   parse_rating                   the Rating Normalizer (pure)           *)
(*   get_llm_selectors              the Selector Oracle                    *)
(*   get_next_page_url              the Pagination Navigator               *)
(*   extract_reviews_with_selectors the Record Extractor                   *)
(*   get_reviews                    the Crawl Orchestrator                 *)
(*                                                                         *)
(* Texts are sequences of one-character strings, so that strip, lower,     *)
(* substring search, split and the number pattern are computed character   *)
(* by character as the code computes them.                                 *)
(***************************************************************************)
EXTENDS Integers, Sequences, FiniteSets, TLC

---------------------------------------------------------------------------
(* Bounds of the model. *)

\* Rating texts are concatenations of at most MaxPieces pieces of Pieces.
MaxPieces == 3

\* The URLs of a site are 1..NumUrls.
NumUrls == 2

\* A rendered page holds at most MaxContainers review containers.
MaxContainers == 2

\* A rendered page holds at most MaxLinks pagination elements.
MaxLinks == 1

\* The page limit of a request is drawn from -1..MaxMaxPages.
MaxMaxPages == 2

\* The texts "N out of M", "N/M" and "n" are built for N, M, n up to MaxNumber.
MaxNumber == 10

\* A document given to the extractor holds at most MaxDocContainers containers.
MaxDocContainers == 2

\* The pagination selector matches at most MaxElements elements.
MaxElements == 2

VARIABLES
    pc,             \* get_reviews: the position of the request in the handler
    url,            \* get_reviews: the argument url
    max_pages,      \* get_reviews: the argument max_pages
    driver,         \* get_reviews: FALSE while None, TRUE once setup_driver returned
    current_url,    \* get_reviews: the local current_url
    page_count,     \* get_reviews: the local page_count
    all_reviews,    \* get_reviews: the local all_reviews
    exc,            \* get_reviews: the step whose exception the handler caught
    outcome,        \* get_reviews: "none", "return" or "raise" (HTTP 500)
    result,         \* get_reviews: the returned dictionary, <<>> when none
    loaded,         \* browser: the URLs driver.get loaded, in order
    quit_calls,     \* browser: the number of driver.quit() calls
    page_sources,   \* browser: the container count of each page_source read
    extracted,      \* the list each extract_reviews_with_selectors call returned
    nexts,          \* the value each get_next_page_url call returned
    log,            \* logger.error: the kinds of error logged
    oracle_pc,      \* get_llm_selectors: the position of the call
    response,       \* get_llm_selectors: the response of client.post, <<>> if none
    oracle_outcome, \* get_llm_selectors: "none", "return" or "raise"
    oracle_ret,     \* get_llm_selectors: the returned ReviewSelectors, <<>> if none
    rating_arg,     \* parse_rating: the argument rating_text
    rating_ret,     \* parse_rating: <<>> before the call, <<r>> once it returned r
    rating_raised,  \* parse_rating: TRUE once the call raised to its caller
    extract_pc,     \* extract_reviews_with_selectors: the position of the call
    html_content,   \* extract_reviews_with_selectors: the document parsed
    review_selectors, \* extract_reviews_with_selectors: the optional selectors set
    container_index,  \* extract_reviews_with_selectors: the container of the loop
    extract_reviews,  \* extract_reviews_with_selectors: the local reviews
    extract_ret,    \* extract_reviews_with_selectors: <<>> or <<the list returned>>
    extract_raised, \* extract_reviews_with_selectors: TRUE once the call raised
    extract_log,    \* extract_reviews_with_selectors: the errors logged
    nav_pc,         \* get_next_page_url: the position of the call
    nav_selector,   \* get_next_page_url: TRUE when selectors.pagination is set
    nav_find_raises,  \* get_next_page_url: whether find_elements raises
    nav_elements,   \* get_next_page_url: what find_elements returns
    nav_index,      \* get_next_page_url: the element of the loop
    nav_inspected,  \* get_next_page_url: the elements whose text was read
    nav_ret,        \* get_next_page_url: <<>> or <<the value returned>>
    nav_raised,     \* get_next_page_url: TRUE once the call raised
    nav_log,        \* get_next_page_url: the errors logged
    twin_site,      \* two requests: the site both crawl
    twin_calls,     \* two requests: the locals of each call of get_reviews
    twin_browsers   \* two requests: the browser instances setup_driver created

---------------------------------------------------------------------------
(* Text helpers: Python's str operations on sequences of characters. *)

None == "None"

Digits == {"0", "1", "2", "3", "4", "5", "6", "7", "8", "9"}

DigitValue(c) ==
    CASE c = "0" -> 0 [] c = "1" -> 1 [] c = "2" -> 2 [] c = "3" -> 3
      [] c = "4" -> 4 [] c = "5" -> 5 [] c = "6" -> 6 [] c = "7" -> 7
      [] c = "8" -> 8 [] c = "9" -> 9

\* str.lower() on one character (the letters rating and link texts use)
LowerChar(c) ==
    CASE c = "O" -> "o" [] c = "U" -> "u" [] c = "T" -> "t" [] c = "F" -> "f"
      [] c = "N" -> "n" [] c = "E" -> "e" [] c = "X" -> "x"
      [] c = "J" -> "j" [] c = "D" -> "d" [] c = "G" -> "g" [] c = "M" -> "m"
      [] c = "R" -> "r" [] c = "W" -> "w" [] c = "A" -> "a"
      [] OTHER -> c

\* str.lower()
Lower(s) == [i \in 1..Len(s) |-> LowerChar(s[i])]

IsSpace(c) == c = " "

RECURSIVE LStrip(_)
LStrip(s) == IF s # <<>> /\ IsSpace(Head(s)) THEN LStrip(Tail(s)) ELSE s

RECURSIVE RStrip(_)
RStrip(s) ==
    IF s # <<>> /\ IsSpace(s[Len(s)]) THEN RStrip(SubSeq(s, 1, Len(s) - 1)) ELSE s

\* str.strip()
Strip(s) == RStrip(LStrip(s))

\* s.startswith(pat) at position i
MatchAt(s, pat, i) ==
    /\ i + Len(pat) - 1 <= Len(s)
    /\ \A j \in 1..Len(pat) : s[i + j - 1] = pat[j]

\* s.find(pat), 1-based; 0 when pat does not occur
Find(s, pat) ==
    IF \E i \in 1..Len(s) : MatchAt(s, pat, i)
    THEN CHOOSE i \in 1..Len(s) :
            /\ MatchAt(s, pat, i)
            /\ \A k \in 1..(i - 1) : ~MatchAt(s, pat, k)
    ELSE 0

\* pat in s
Contains(s, pat) == Find(s, pat) # 0

\* s.count(c) for a single character
Count(s, c) == Cardinality({i \in 1..Len(s) : s[i] = c})

\* s.split(pat): the parts between the non-overlapping occurrences of pat
RECURSIVE Split(_, _)
Split(s, pat) ==
    LET i == Find(s, pat)
    IN  IF i = 0 THEN <<s>>
        ELSE <<SubSeq(s, 1, i - 1)>> \o Split(SubSeq(s, i + Len(pat), Len(s)), pat)

---------------------------------------------------------------------------
(* Numbers: a Python float is modelled by the exact rational num/den       *)
(* (den > 0) that its decimal text denotes.                                *)

Rat(n, d) == [num |-> n, den |-> d]

NoNumber == [num |-> 0, den |-> 0]

RECURSIVE Pow10(_)
Pow10(k) == IF k = 0 THEN 1 ELSE 10 * Pow10(k - 1)

\* the value of a run of digits
RECURSIVE DigitsValue(_)
DigitsValue(s) ==
    IF s = <<>> THEN 0
    ELSE 10 * DigitsValue(SubSeq(s, 1, Len(s) - 1)) + DigitValue(s[Len(s)])

\* the end of the maximal run of digits starting at position i (i - 1 if none)
RECURSIVE DigitRunEnd(_, _)
DigitRunEnd(s, i) ==
    IF i <= Len(s) /\ s[i] \in Digits THEN DigitRunEnd(s, i + 1) ELSE i - 1

\* float() of a text digits[.digits], a match of \d+\.?\d*
DecimalValue(s) ==
    LET dot == Find(s, <<".">>)
    IN  IF dot = 0 THEN Rat(DigitsValue(s), 1)
        ELSE LET frac == SubSeq(s, dot + 1, Len(s))
             IN  Rat(DigitsValue(SubSeq(s, 1, dot - 1) \o frac), Pow10(Len(frac)))

\* extract_first_number: re.findall(r'\d+\.?\d*', text)[0] as a float, or None
extract_first_number(text) ==
    IF \A i \in 1..Len(text) : text[i] \notin Digits THEN NoNumber
    ELSE LET i == CHOOSE k \in 1..Len(text) :
                    /\ text[k] \in Digits
                    /\ \A m \in 1..(k - 1) : text[m] \notin Digits
             j == DigitRunEnd(text, i)
             e == IF j + 1 <= Len(text) /\ text[j + 1] = "."
                  THEN DigitRunEnd(text, j + 2)
                  ELSE j
         IN  DecimalValue(SubSeq(text, i, e))

\* whether float(s) accepts the text: [sign] digits [. [digits]] or [sign] . digits
\* (over the model's alphabet, which has no exponent, "inf", "nan" or "_")
IsFloatText(s) ==
    LET t == Strip(s)
        u == IF t # <<>> /\ t[1] \in {"-", "+"} THEN Tail(t) ELSE t
        j == DigitRunEnd(u, 1)
    IN  IF j = Len(u) THEN j >= 1
        ELSE /\ u[j + 1] = "."
             /\ DigitRunEnd(u, j + 2) = Len(u)
             /\ Len(u) >= 2

\* float(s) for a text IsFloatText accepts
FloatValue(s) ==
    LET t == Strip(s)
        neg == t[1] = "-"
        u == IF t[1] \in {"-", "+"} THEN Tail(t) ELSE t
        v == DecimalValue(IF u[1] = "." THEN <<"0">> \o u ELSE u)
    IN  Rat(IF neg THEN 0 - v.num ELSE v.num, v.den)

\* round(n / d): Python 3 rounds a float to the nearest integer, ties to even
PyRound(n, d) ==
    LET p == IF d < 0 THEN 0 - n ELSE n
        q == IF d < 0 THEN 0 - d ELSE d
        fl == p \div q
        r == p - fl * q
    IN  IF 2 * r < q THEN fl
        ELSE IF 2 * r > q THEN fl + 1
        ELSE IF fl % 2 = 0 THEN fl ELSE fl + 1

Min(a, b) == IF a <= b THEN a ELSE b

Max(a, b) == IF a >= b THEN a ELSE b

---------------------------------------------------------------------------
(* parse_rating: the Rating Normalizer. *)

\* the rating returned for empty, unparseable or failing text
DefaultRating == 5

\* the outcome of one branch of parse_rating: it returns a value, raises, or
\* falls through to the next branch
Returns(v) == [kind |-> "return", value |-> v]

Raise == [kind |-> "raise", value |-> 0]

Fall == [kind |-> "fall", value |-> 0]

\* min(5, max(1, int(round(n / d)))); n / d raises ZeroDivisionError when d = 0
ScaleClamp(n, d) ==
    IF d = 0 THEN Raise ELSE Returns(Min(5, Max(1, PyRound(n, d))))

OutOf == <<"o", "u", "t", " ", "o", "f">>

\* the "X out of Y" branch
OutOfBranch(text) ==
    IF ~Contains(text, OutOf) THEN Fall
    ELSE LET parts == Split(text, OutOf)
             rating_value == extract_first_number(parts[1])
             scale == extract_first_number(parts[2])
         IN  IF Len(parts) >= 2 /\ rating_value # NoNumber /\ scale # NoNumber
             THEN ScaleClamp(rating_value.num * 5 * scale.den,
                             rating_value.den * scale.num)
             ELSE Fall

\* the star glyph U+2605, written as an ASCII character of the model's alphabet
Star == "*"

\* the star branch: the count of star glyphs, as counted
StarBranch(text) ==
    IF Contains(text, <<Star>>) THEN Returns(Count(text, Star)) ELSE Fall

\* the "X/Y" branch; a ValueError of float() is passed over
FractionBranch(text) ==
    IF ~Contains(text, <<"/">>) THEN Fall
    ELSE LET parts == Split(text, <<"/">>)
         IN  IF Len(parts) = 2 /\ IsFloatText(parts[1]) /\ IsFloatText(parts[2])
             THEN LET num == FloatValue(parts[1])
                      denom == FloatValue(parts[2])
                  IN  ScaleClamp(num.num * 5 * denom.den, num.den * denom.num)
             ELSE Fall

\* the first-number branch: above 5 the scale is taken to be 10
NumberBranch(text) ==
    LET rating == extract_first_number(text)
    IN  IF rating = NoNumber THEN Fall
        ELSE IF rating.num > 5 * rating.den
             THEN ScaleClamp(rating.num, 2 * rating.den)
             ELSE ScaleClamp(rating.num, rating.den)

\* the try block of parse_rating
ParseRatingTry(rating_text) ==
    LET text == Lower(Strip(rating_text))
        b1 == OutOfBranch(text)
        b2 == StarBranch(text)
        b3 == FractionBranch(text)
        b4 == NumberBranch(text)
    IN  IF text = <<>> THEN Returns(DefaultRating)
        ELSE IF b1.kind # "fall" THEN b1
        ELSE IF b2.kind # "fall" THEN b2
        ELSE IF b3.kind # "fall" THEN b3
        ELSE IF b4.kind # "fall" THEN b4
        ELSE Returns(DefaultRating)

\* ParseRatingCall without the handler: the exception reaches the caller
ParseRatingCallUnhandled(rating_text) == ParseRatingTry(rating_text)

\* the try block with its handler: except Exception: log, return 5
ParseRatingCall(rating_text) ==
    LET r == ParseRatingTry(rating_text)
    IN  IF r.kind = "raise" THEN Returns(DefaultRating) ELSE r

\* parse_rating: any exception of the try block resolves to the default
parse_rating(rating_text) ==
    LET r == ParseRatingTry(rating_text)
    IN  IF r.kind = "raise" THEN DefaultRating ELSE r.value

---------------------------------------------------------------------------
(* The rating texts the normalizer is run on. *)

FiveStars == <<Star, Star, Star, Star, Star>>

Pieces ==
    { <<"0">>, <<"1">>, <<"3">>, <<"4">>, <<"5">>, <<"7">>, <<"8">>, <<"9">>,
      <<"1", "0">>, <<".">>, <<" ">>, <<"/">>, <<"-">>, <<"x">>,
      <<Star>>, FiveStars,
      <<" ", "o", "u", "t", " ", "o", "f", " ">>,
      <<" ", "O", "u", "t", " ", "O", "F", " ">> }

RECURSIVE Concat(_)
Concat(ps) == IF ps = <<>> THEN <<>> ELSE Head(ps) \o Concat(Tail(ps))

RatingTexts ==
    { Concat(ps) : ps \in UNION { [1..n -> Pieces] : n \in 0..MaxPieces } }

DigitChar(d) ==
    CASE d = 0 -> "0" [] d = 1 -> "1" [] d = 2 -> "2" [] d = 3 -> "3"
      [] d = 4 -> "4" [] d = 5 -> "5" [] d = 6 -> "6" [] d = 7 -> "7"
      [] d = 8 -> "8" [] d = 9 -> "9"

\* str(n) for a natural number n
RECURSIVE ToText(_)
ToText(n) ==
    IF n < 10 THEN <<DigitChar(n)>> ELSE ToText(n \div 10) \o <<DigitChar(n % 10)>>

\* the text "N out of M"
OutOfText(N, M) == ToText(N) \o <<" ">> \o OutOf \o <<" ">> \o ToText(M)

\* the text "N/M"
FractionText(N, M) == ToText(N) \o <<"/">> \o ToText(M)

\* the texts "N out of M" and "N/M", and the plain numbers "n"
ScaleTexts ==
    { OutOfText(N, M) : N \in 0..MaxNumber, M \in 0..MaxNumber }
    \cup { FractionText(N, M) : N \in 0..MaxNumber, M \in 0..MaxNumber }
    \cup { ToText(n) : n \in 0..MaxNumber }

ratingVars == <<rating_arg, rating_ret, rating_raised>>

crawlVars ==
    <<pc, url, max_pages, driver, current_url, page_count, all_reviews, exc,
      outcome, result, loaded, quit_calls, page_sources, extracted, nexts, log>>

oracleVars == <<oracle_pc, response, oracle_outcome, oracle_ret>>

extractVars ==
    <<extract_pc, html_content, review_selectors, container_index,
      extract_reviews, extract_ret, extract_raised, extract_log>>

navVars ==
    <<nav_pc, nav_selector, nav_find_raises, nav_elements, nav_index,
      nav_inspected, nav_ret, nav_raised, nav_log>>

twinVars == <<twin_site, twin_calls, twin_browsers>>

restVars == <<extractVars, navVars, twinVars>>

baseVars == <<crawlVars, ratingVars, oracleVars>>

\* what a call of the extractor, and of the navigator, leaves alone
extractFrame == <<baseVars, navVars, twinVars>>

navFrame == <<baseVars, extractVars, twinVars>>

twinFrame == <<baseVars, extractVars, navVars>>

vars == <<crawlVars, ratingVars, oracleVars, restVars>>

RatingInit ==
    /\ rating_arg \in RatingTexts \cup ScaleTexts
    /\ rating_ret = <<>>
    /\ rating_raised = FALSE

RatingIdle ==
    /\ rating_arg = <<>>
    /\ rating_ret = <<>>
    /\ rating_raised = FALSE

\* one call parse_rating(rating_arg): it returns a value or raises
ParseRating ==
    /\ rating_ret = <<>>
    /\ ~rating_raised
    /\ LET r == ParseRatingCall(rating_arg)
       IN  IF r.kind = "raise"
           THEN rating_raised' = TRUE /\ UNCHANGED rating_ret
           ELSE rating_ret' = <<r.value>> /\ UNCHANGED rating_raised
    /\ UNCHANGED <<rating_arg, crawlVars, oracleVars, restVars>>

---------------------------------------------------------------------------
(* The site: pages, containers and pagination elements.                    *)
(* A page is named by its URL; what a page holds is revealed when the      *)
(* browser is asked for it, so every link structure (chains, self-loops,   *)
(* cycles) and every page content within the bounds occurs.                *)

URLs == 1..NumUrls

\* element.get_attribute('href') of an element without one: None
NoHref == 0

Hrefs == URLs \cup {NoHref}

\* element.text of a pagination element: a page number, "Next"
LinkTexts == { <<"2">>, <<"N", "e", "x", "t">> }

\* the indicators of a forward link; ">" and ">>" stand for the glyphs
\* U+203A and U+00BB
NextTexts ==
    { <<"n", "e", "x", "t">>, <<">">>, <<">", ">">>,
      <<"f", "o", "r", "w", "a", "r", "d">> }

PaginationElements == [text : LinkTexts, href : Hrefs]

\* what driver.find_elements can return for the pagination selector
PaginationLists == UNION { [1..n -> PaginationElements] : n \in 0..MaxLinks }

\* any(next_text in element.text.lower() for next_text in [...])
IsNextElement(element) ==
    \E next_text \in NextTexts : Contains(Lower(element.text), next_text)

\* get_next_page_url: the href of the first forward element; None when there
\* is none, and when the lookup raises (the exception is logged, not raised)
get_next_page_url(pagination_elements, lookup_raises) ==
    IF lookup_raises THEN NoHref
    ELSE IF \E i \in 1..Len(pagination_elements) :
                IsNextElement(pagination_elements[i])
    THEN LET i == CHOOSE k \in 1..Len(pagination_elements) :
                    /\ IsNextElement(pagination_elements[k])
                    /\ \A m \in 1..(k - 1) : ~IsNextElement(pagination_elements[m])
         IN  pagination_elements[i].href
    ELSE NoHref

\* the records of the containers lo..n of page u that are not in bad, in order
RECURSIVE RecordsFrom(_, _, _, _)
RecordsFrom(u, lo, n, bad) ==
    IF lo > n THEN <<>>
    ELSE (IF lo \in bad THEN <<>> ELSE << <<u, lo>> >>)
         \o RecordsFrom(u, lo + 1, n, bad)

\* extract_reviews_with_selectors on the source of page u with n containers:
\* one record per container whose extraction does not raise, in document
\* order; the empty list when parsing the document raises
extract_reviews_with_selectors(u, n, bad, parse_raises) ==
    IF parse_raises THEN <<>> ELSE RecordsFrom(u, 1, n, bad)

---------------------------------------------------------------------------
(* get_reviews: the Crawl Orchestrator, one request. *)

NoResult == <<>>

CrawlInit ==
    /\ pc = "setup"
    /\ url \in URLs
    /\ max_pages \in (0 - 1)..MaxMaxPages
    /\ driver = FALSE
    /\ current_url = NoHref
    /\ page_count = 0
    /\ all_reviews = <<>>
    /\ exc = "none"
    /\ outcome = "none"
    /\ result = NoResult
    /\ loaded = <<>>
    /\ quit_calls = 0
    /\ page_sources = <<>>
    /\ extracted = <<>>
    /\ nexts = <<>>
    /\ log = {}

\* driver = setup_driver(); all_reviews = []; current_url = str(url)
\* setup_driver logs and raises ScrapingError when the browser cannot start
Setup ==
    /\ pc = "setup"
    /\ \/ /\ driver' = TRUE
          /\ current_url' = url
          /\ pc' = "initial_get"
          /\ UNCHANGED <<exc, log>>
       \/ /\ log' = log \cup {"setup_driver"}
          /\ exc' = "setup"
          /\ pc' = "except"
          /\ UNCHANGED <<driver, current_url>>
    /\ UNCHANGED <<ratingVars, oracleVars, restVars>>
    /\ UNCHANGED <<url, max_pages, page_count, all_reviews, outcome, result,
                   loaded, quit_calls, page_sources, extracted, nexts>>

\* driver.get(current_url): the initial navigation
InitialGet ==
    /\ pc = "initial_get"
    /\ \/ /\ loaded' = Append(loaded, current_url)
          /\ pc' = "initial_wait"
          /\ UNCHANGED exc
       \/ /\ exc' = "initial_get"
          /\ pc' = "except"
          /\ UNCHANGED loaded
    /\ UNCHANGED <<ratingVars, oracleVars, restVars>>
    /\ UNCHANGED <<url, max_pages, driver, current_url, page_count, all_reviews,
                   outcome, result, quit_calls, page_sources, extracted, nexts,
                   log>>

\* InitialWait with the timeout of the wait logged and passed over
InitialWaitSwallowsTimeout ==
    /\ pc = "initial_wait"
    /\ \/ /\ page_count' = 0
          /\ pc' = "while"
          /\ UNCHANGED exc
       \/ /\ exc' = "initial_wait"
          /\ page_count' = 0
          /\ pc' = "while"
    /\ UNCHANGED <<ratingVars, oracleVars, restVars>>
    /\ UNCHANGED <<url, max_pages, driver, current_url, all_reviews, outcome,
                   result, loaded, quit_calls, page_sources, extracted, nexts,
                   log>>

\* WebDriverWait(driver, 10).until(body is present); selectors; page_count = 0
InitialWait ==
    /\ pc = "initial_wait"
    /\ \/ /\ page_count' = 0
          /\ pc' = "while"
          /\ UNCHANGED exc
       \/ /\ exc' = "initial_wait"
          /\ pc' = "except"
          /\ UNCHANGED page_count
    /\ UNCHANGED <<ratingVars, oracleVars, restVars>>
    /\ UNCHANGED <<url, max_pages, driver, current_url, all_reviews, outcome,
                   result, loaded, quit_calls, page_sources, extracted, nexts,
                   log>>

\* WhileTest without the test page_count < max_pages
WhileTestWithoutLimit ==
    /\ pc = "while"
    /\ pc' = IF current_url # NoHref THEN "extract" ELSE "return"
    /\ UNCHANGED <<ratingVars, oracleVars, restVars>>
    /\ UNCHANGED <<url, max_pages, driver, current_url, page_count, all_reviews,
                   exc, outcome, result, loaded, quit_calls, page_sources,
                   extracted, nexts, log>>

\* while current_url and page_count < max_pages
WhileTest ==
    /\ pc = "while"
    /\ pc' = IF current_url # NoHref /\ page_count < max_pages
             THEN "extract" ELSE "return"
    /\ UNCHANGED <<ratingVars, oracleVars, restVars>>
    /\ UNCHANGED <<url, max_pages, driver, current_url, page_count, all_reviews,
                   exc, outcome, result, loaded, quit_calls, page_sources,
                   extracted, nexts, log>>

\* ExtractPage with all_reviews = reviews in place of all_reviews.extend(reviews)
ExtractPageOverwrites ==
    /\ pc = "extract"
    /\ \/ \E n \in 0..MaxContainers, bad \in SUBSET (1..MaxContainers),
            parse_raises \in BOOLEAN :
            LET reviews == extract_reviews_with_selectors(
                               loaded[Len(loaded)], n, bad, parse_raises)
            IN  /\ bad \subseteq 1..n
                /\ parse_raises => bad = {}
                /\ page_sources' = Append(page_sources, n)
                /\ extracted' = Append(extracted, reviews)
                /\ all_reviews' = reviews
                /\ log' = log \cup (IF parse_raises THEN {"parse_html"} ELSE {})
                               \cup (IF bad # {} THEN {"extract_review"} ELSE {})
                /\ pc' = "find_next"
                /\ UNCHANGED exc
       \/ /\ exc' = "page_source"
          /\ pc' = "except"
          /\ UNCHANGED <<page_sources, extracted, all_reviews, log>>
    /\ UNCHANGED <<ratingVars, oracleVars, restVars>>
    /\ UNCHANGED <<url, max_pages, driver, current_url, page_count, outcome,
                   result, loaded, quit_calls, nexts>>

\* reviews = extract_reviews_with_selectors(driver.page_source, selectors)
\* all_reviews.extend(reviews)
\* Reading driver.page_source is outside the extractor's and the loop's try
\* blocks: when it raises, the handler's except clause catches it.
ExtractPage ==
    /\ pc = "extract"
    /\ \/ \E n \in 0..MaxContainers, bad \in SUBSET (1..MaxContainers),
            parse_raises \in BOOLEAN :
            LET reviews == extract_reviews_with_selectors(
                               loaded[Len(loaded)], n, bad, parse_raises)
            IN  /\ bad \subseteq 1..n
                /\ parse_raises => bad = {}
                /\ page_sources' = Append(page_sources, n)
                /\ extracted' = Append(extracted, reviews)
                /\ all_reviews' = all_reviews \o reviews
                /\ log' = log \cup (IF parse_raises THEN {"parse_html"} ELSE {})
                               \cup (IF bad # {} THEN {"extract_review"} ELSE {})
                /\ pc' = "find_next"
                /\ UNCHANGED exc
       \/ /\ exc' = "page_source"
          /\ pc' = "except"
          /\ UNCHANGED <<page_sources, extracted, all_reviews, log>>
    /\ UNCHANGED <<ratingVars, oracleVars, restVars>>
    /\ UNCHANGED <<url, max_pages, driver, current_url, page_count, outcome,
                   result, loaded, quit_calls, nexts>>

\* what a call of get_next_page_url can give on the pages of the model: the
\* pairs <<returned value, whether the lookup raised>>
NextPageOutcomes ==
    { <<get_next_page_url(pagination_elements, FALSE), FALSE>> :
          pagination_elements \in PaginationLists }
    \cup { <<get_next_page_url(<<>>, TRUE), TRUE>> }

\* FindNext without the test next_url == current_url
FindNextWithoutLoopGuard ==
    /\ pc = "find_next"
    /\ \E o \in NextPageOutcomes :
          LET next_url == o[1]
              lookup_raises == o[2]
          IN  /\ nexts' = Append(nexts, next_url)
              /\ log' = log \cup (IF lookup_raises THEN {"find_next"} ELSE {})
              /\ IF next_url = NoHref
                 THEN /\ pc' = "return"
                      /\ UNCHANGED current_url
                 ELSE /\ pc' = "navigate"
                      /\ current_url' = next_url
    /\ UNCHANGED <<ratingVars, oracleVars, restVars>>
    /\ UNCHANGED <<url, max_pages, driver, page_count, all_reviews, exc, outcome,
                   result, loaded, quit_calls, page_sources, extracted>>

\* next_url = await get_next_page_url(driver, selectors)
\* if not next_url or next_url == current_url: break
\* current_url = next_url
FindNext ==
    /\ pc = "find_next"
    /\ \E o \in NextPageOutcomes :
          LET next_url == o[1]
              lookup_raises == o[2]
          IN  /\ nexts' = Append(nexts, next_url)
              /\ log' = log \cup (IF lookup_raises THEN {"find_next"} ELSE {})
              /\ IF next_url = NoHref \/ next_url = current_url
                 THEN /\ pc' = "return"
                      /\ UNCHANGED current_url
                 ELSE /\ pc' = "navigate"
                      /\ current_url' = next_url
    /\ UNCHANGED <<ratingVars, oracleVars, restVars>>
    /\ UNCHANGED <<url, max_pages, driver, page_count, all_reviews, exc, outcome,
                   result, loaded, quit_calls, page_sources, extracted>>

\* Navigate with driver.get outside the loop's try block: its exception
\* reaches the handler's except clause
NavigateFailurePropagates ==
    /\ pc = "navigate"
    /\ \/ /\ loaded' = Append(loaded, current_url)
          /\ page_count' = page_count + 1
          /\ pc' = "while"
          /\ UNCHANGED <<log, exc>>
       \/ /\ log' = log \cup {"navigate"}
          /\ exc' = "navigate"
          /\ pc' = "except"
          /\ UNCHANGED <<loaded, page_count>>
    /\ UNCHANGED <<ratingVars, oracleVars, restVars>>
    /\ UNCHANGED <<url, max_pages, driver, current_url, all_reviews,
                   outcome, result, quit_calls, page_sources, extracted, nexts>>

\* driver.get(current_url); time.sleep(2); then page_count += 1
\* an exception of driver.get is logged and breaks out of the loop
Navigate ==
    /\ pc = "navigate"
    /\ \/ /\ loaded' = Append(loaded, current_url)
          /\ page_count' = page_count + 1
          /\ pc' = "while"
          /\ UNCHANGED log
       \/ /\ log' = log \cup {"navigate"}
          /\ pc' = "return"
          /\ UNCHANGED <<loaded, page_count>>
    /\ UNCHANGED <<ratingVars, oracleVars, restVars>>
    /\ UNCHANGED <<url, max_pages, driver, current_url, all_reviews, exc,
                   outcome, result, quit_calls, page_sources, extracted, nexts>>

\* Return reporting page_count in place of page_count + 1
ReturnPageCount ==
    /\ pc = "return"
    /\ result' = [reviews_count |-> Len(all_reviews),
                  pages_processed |-> page_count,
                  reviews |-> all_reviews]
    /\ outcome' = "return"
    /\ pc' = "finally"
    /\ UNCHANGED <<ratingVars, oracleVars, restVars>>
    /\ UNCHANGED <<url, max_pages, driver, current_url, page_count, all_reviews,
                   exc, loaded, quit_calls, page_sources, extracted, nexts, log>>

\* return {"reviews_count": ..., "pages_processed": page_count + 1, "reviews": ...}
Return ==
    /\ pc = "return"
    /\ result' = [reviews_count |-> Len(all_reviews),
                  pages_processed |-> page_count + 1,
                  reviews |-> all_reviews]
    /\ outcome' = "return"
    /\ pc' = "finally"
    /\ UNCHANGED <<ratingVars, oracleVars, restVars>>
    /\ UNCHANGED <<url, max_pages, driver, current_url, page_count, all_reviews,
                   exc, loaded, quit_calls, page_sources, extracted, nexts, log>>

\* except Exception as e: logger.error(...); raise HTTPException(status_code=500)
Except ==
    /\ pc = "except"
    /\ log' = log \cup {"processing"}
    /\ outcome' = "raise"
    /\ pc' = "finally"
    /\ UNCHANGED <<ratingVars, oracleVars, restVars>>
    /\ UNCHANGED <<url, max_pages, driver, current_url, page_count, all_reviews,
                   exc, result, loaded, quit_calls, page_sources, extracted,
                   nexts>>

\* Finally with driver.quit() at the end of the try block instead: the browser
\* is released only when the request returns
FinallyQuitOnlyOnReturn ==
    /\ pc = "finally"
    /\ IF driver /\ outcome = "return"
       THEN /\ quit_calls' = quit_calls + 1
            /\ \/ UNCHANGED log
               \/ log' = log \cup {"close_browser"}
       ELSE UNCHANGED <<quit_calls, log>>
    /\ pc' = "done"
    /\ UNCHANGED <<ratingVars, oracleVars, restVars>>
    /\ UNCHANGED <<url, max_pages, driver, current_url, page_count, all_reviews,
                   exc, outcome, result, loaded, page_sources, extracted, nexts>>

\* finally: if driver: try: driver.quit() except: logger.error(...)
Finally ==
    /\ pc = "finally"
    /\ IF driver
       THEN /\ quit_calls' = quit_calls + 1
            /\ \/ UNCHANGED log
               \/ log' = log \cup {"close_browser"}
       ELSE UNCHANGED <<quit_calls, log>>
    /\ pc' = "done"
    /\ UNCHANGED <<ratingVars, oracleVars, restVars>>
    /\ UNCHANGED <<url, max_pages, driver, current_url, page_count, all_reviews,
                   exc, outcome, result, loaded, page_sources, extracted, nexts>>

Next ==
    \/ Setup
    \/ InitialGet
    \/ InitialWait
    \/ WhileTest
    \/ ExtractPage
    \/ FindNext
    \/ Navigate
    \/ Return
    \/ Except
    \/ Finally

CrawlIdle ==
    /\ pc = "idle"
    /\ url = NoHref
    /\ max_pages = 0
    /\ driver = FALSE
    /\ current_url = NoHref
    /\ page_count = 0
    /\ all_reviews = <<>>
    /\ exc = "none"
    /\ outcome = "none"
    /\ result = NoResult
    /\ loaded = <<>>
    /\ quit_calls = 0
    /\ page_sources = <<>>
    /\ extracted = <<>>
    /\ nexts = <<>>
    /\ log = {}

---------------------------------------------------------------------------
(* get_llm_selectors: the Selector Oracle, one call. *)

\* get_default_selectors()
get_default_selectors ==
    [container |-> "div[class*='review'], div[class*='comment']",
     title |-> "h3, h4, strong",
     rating |-> "span[class*='rating'], div[class*='stars']",
     body |-> "div[class*='content'], div[class*='text']",
     reviewer |-> "span[class*='author'], span[class*='name']",
     date |-> "span[class*='date']",
     pagination |-> "ul.pagination a, div[class*='pagination'] a"]

\* JSON values of the fields of the object the service is asked for: null, a
\* string, a value of another type (an array), or the key is absent
JsonNull == [t |-> "null", v |-> ""]

JsonStr(v) == [t |-> "str", v |-> v]

JsonArray == [t |-> "array", v |-> ""]

JsonAbsent == [t |-> "absent", v |-> ""]

\* the JSON objects the "response" text can hold
JsonObjects ==
    [container : {JsonAbsent, JsonNull, JsonArray, JsonStr("div.review")},
     title : {JsonNull, JsonStr("h2.title")},
     rating : {JsonNull},
     body : {JsonNull},
     reviewer : {JsonNull},
     date : {JsonNull},
     pagination : {JsonNull, JsonArray, JsonStr("a.next")}]

NoFields == <<>>

\* the text of the "response" key: not JSON, a JSON array, or a JSON object
ResponseTexts ==
    { [kind |-> "malformed", fields |-> NoFields],
      [kind |-> "array", fields |-> NoFields] }
    \cup { [kind |-> "object", fields |-> f] : f \in JsonObjects }

\* the body of the HTTP response: not JSON, JSON without the "response" key,
\* or JSON whose "response" key holds a text
Bodies ==
    { [kind |-> "not_json", text |-> NoFields],
      [kind |-> "no_response_key", text |-> NoFields] }
    \cup { [kind |-> "json", text |-> t] : t \in ResponseTexts }

StatusCodes == {200, 404, 500}

Responses == [status_code : StatusCodes, body : Bodies]

NoResponse == <<>>

\* ReviewSelectors(**selectors) validates: container is a string, every other
\* field is a string or null
ValidSelectors(f) ==
    /\ f.container.t = "str"
    /\ \A v \in {f.title, f.rating, f.body, f.reviewer, f.date, f.pagination} :
          v.t \in {"str", "null"}

FieldValue(v) == IF v.t = "str" THEN v.v ELSE None

\* response.json()["response"], json.loads, ReviewSelectors(**selectors):
\* whether the three steps go through without an exception
Decodes(b) ==
    /\ b.kind = "json"
    /\ b.text.kind = "object"
    /\ ValidSelectors(b.text.fields)

\* the ReviewSelectors the three steps build from a body that decodes
Decoded(b) ==
    LET f == b.text.fields
    IN  [container |-> FieldValue(f.container),
         title |-> FieldValue(f.title),
         rating |-> FieldValue(f.rating),
         body |-> FieldValue(f.body),
         reviewer |-> FieldValue(f.reviewer),
         date |-> FieldValue(f.date),
         pagination |-> FieldValue(f.pagination)]

OracleInit ==
    /\ oracle_pc = "open"
    /\ response = NoResponse
    /\ oracle_outcome = "none"
    /\ oracle_ret = <<>>

OracleIdle ==
    /\ oracle_pc = "idle"
    /\ response = NoResponse
    /\ oracle_outcome = "none"
    /\ oracle_ret = <<>>

\* return <selectors> from inside get_llm_selectors
OracleReturn(selectors) ==
    /\ oracle_outcome' = "return"
    /\ oracle_ret' = <<selectors>>
    /\ oracle_pc' = "done"

\* async with httpx.AsyncClient(timeout=30.0) as client
OracleOpen ==
    /\ oracle_pc = "open"
    /\ \/ oracle_pc' = "probe"
       \/ oracle_pc' = "except"
    /\ UNCHANGED <<response, oracle_outcome, oracle_ret, log>>
    /\ UNCHANGED <<pc, url, max_pages, driver, current_url, page_count,
                   all_reviews, exc, outcome, result, loaded, quit_calls,
                   page_sources, extracted, nexts, ratingVars, restVars>>

\* await client.get(".../api/version"); on an exception: log, return default
OracleProbe ==
    /\ oracle_pc = "probe"
    /\ \/ /\ oracle_pc' = "post"
          /\ UNCHANGED <<oracle_outcome, oracle_ret, log>>
       \/ /\ log' = log \cup {"ollama_connect"}
          /\ OracleReturn(get_default_selectors)
    /\ UNCHANGED response
    /\ UNCHANGED <<pc, url, max_pages, driver, current_url, page_count,
                   all_reviews, exc, outcome, result, loaded, quit_calls,
                   page_sources, extracted, nexts, ratingVars, restVars>>

\* response = await client.post(OLLAMA_ENDPOINT, json=...)
OraclePost ==
    /\ oracle_pc = "post"
    /\ \/ /\ response' \in Responses
          /\ oracle_pc' = "status"
       \/ /\ oracle_pc' = "except"
          /\ UNCHANGED response
    /\ UNCHANGED <<oracle_outcome, oracle_ret, log>>
    /\ UNCHANGED <<pc, url, max_pages, driver, current_url, page_count,
                   all_reviews, exc, outcome, result, loaded, quit_calls,
                   page_sources, extracted, nexts, ratingVars, restVars>>

\* OracleStatus without the test of the status code
OracleStatusIgnored ==
    /\ oracle_pc = "status"
    /\ oracle_pc' = "decode"
    /\ UNCHANGED <<oracle_outcome, oracle_ret, log>>
    /\ UNCHANGED response
    /\ UNCHANGED <<pc, url, max_pages, driver, current_url, page_count,
                   all_reviews, exc, outcome, result, loaded, quit_calls,
                   page_sources, extracted, nexts, ratingVars, restVars>>

\* if response.status_code == 200: ... else: log, return default
OracleStatus ==
    /\ oracle_pc = "status"
    /\ IF response.status_code = 200
       THEN /\ oracle_pc' = "decode"
            /\ UNCHANGED <<oracle_outcome, oracle_ret, log>>
       ELSE /\ log' = log \cup {"ollama_api"}
            /\ OracleReturn(get_default_selectors)
    /\ UNCHANGED response
    /\ UNCHANGED <<pc, url, max_pages, driver, current_url, page_count,
                   all_reviews, exc, outcome, result, loaded, quit_calls,
                   page_sources, extracted, nexts, ratingVars, restVars>>

\* try: return ReviewSelectors(**json.loads(response.json()["response"]))
\* except Exception: log, return default
OracleDecode ==
    /\ oracle_pc = "decode"
    /\ IF Decodes(response.body)
       THEN /\ OracleReturn(Decoded(response.body))
            /\ UNCHANGED log
       ELSE /\ log' = log \cup {"parse_llm"}
            /\ OracleReturn(get_default_selectors)
    /\ UNCHANGED response
    /\ UNCHANGED <<pc, url, max_pages, driver, current_url, page_count,
                   all_reviews, exc, outcome, result, loaded, quit_calls,
                   page_sources, extracted, nexts, ratingVars, restVars>>

\* the outer except Exception: log, return default
OracleExcept ==
    /\ oracle_pc = "except"
    /\ log' = log \cup {"llm_selectors"}
    /\ OracleReturn(get_default_selectors)
    /\ UNCHANGED response
    /\ UNCHANGED <<pc, url, max_pages, driver, current_url, page_count,
                   all_reviews, exc, outcome, result, loaded, quit_calls,
                   page_sources, extracted, nexts, ratingVars, restVars>>

NextOracle ==
    \/ OracleOpen
    \/ OracleProbe
    \/ OraclePost
    \/ OracleStatus
    \/ OracleDecode
    \/ OracleExcept

---------------------------------------------------------------------------
(* extract_reviews_with_selectors: the Record Extractor, one call.         *)
(* A document is what the parser makes of html_content: whether parsing    *)
(* (or selecting the containers) raises, and the containers matched in     *)
(* document order.  A container holds its text, for each optional field    *)
(* the element the field's selector matches in it (<<>> when it matches    *)
(* nothing, <<text>> otherwise) and whether extracting it raises.          *)

Fields == {"title", "rating", "body", "reviewer", "date"}

\* select_one found nothing, or the selector is None
NoElement == <<>>

\* date = None
NoDate == <<>>

ReviewTitle == <<"R", "e", "v", "i", "e", "w">>

Anonymous == <<"A", "n", "o", "n", "y", "m", "o", "u", "s">>

FiveText == <<"5">>

JudgeMe == <<"j", "u", "d", "g", "e", ".", "m", "e">>

\* the end of the greedy run of whitespace at position i (i - 1 if none)
RECURSIVE SpaceRunEnd(_, _)
SpaceRunEnd(s, i) ==
    IF i <= Len(s) /\ IsSpace(s[i]) THEN SpaceRunEnd(s, i + 1) ELSE i - 1

\* the end of group 1 of a match of (\d+\.?\d*)\s*out of\s*\d+ that starts at
\* position i, 0 if the pattern does not match there
OutOfMatchAt(s, i) ==
    IF i > Len(s) \/ s[i] \notin Digits THEN 0
    ELSE LET j == DigitRunEnd(s, i)
             e == IF j + 1 <= Len(s) /\ s[j + 1] = "."
                  THEN DigitRunEnd(s, j + 2)
                  ELSE j
             o == SpaceRunEnd(s, e + 1) + 1
             m == SpaceRunEnd(s, o + Len(OutOf)) + 1
         IN  IF MatchAt(s, OutOf, o) /\ m <= Len(s) /\ s[m] \in Digits THEN e ELSE 0

\* re.search(r'(\d+\.?\d*)\s*out of\s*\d+', s): <<group(1)>> of the leftmost
\* match, <<>> when there is none
OutOfSearch(s) ==
    IF \A i \in 1..Len(s) : OutOfMatchAt(s, i) = 0 THEN <<>>
    ELSE LET i == CHOOSE k \in 1..Len(s) :
                    /\ OutOfMatchAt(s, k) # 0
                    /\ \A m \in 1..(k - 1) : OutOfMatchAt(s, m) = 0
         IN  <<SubSeq(s, i, OutOfMatchAt(s, i))>>

\* the Judge.me case: the text is replaced by group 1 of the pattern, or "5"
WidgetRatingText(rating_text) ==
    IF Contains(Lower(rating_text), JudgeMe)
    THEN LET match == OutOfSearch(rating_text)
         IN  IF match # <<>> THEN match[1] ELSE FiveText
    ELSE rating_text

\* container.select_one(selector) if selector else None
select_one(container, field, selectors) ==
    IF field \in selectors THEN container[field] ELSE NoElement

\* elem.text.strip() if elem else the empty text
TextOrEmpty(elem, default) ==
    IF elem # NoElement THEN Strip(elem[1]) ELSE <<>>

\* elem.text.strip() if elem else default
TextOrDefault(elem, default) ==
    IF elem # NoElement THEN Strip(elem[1]) ELSE default

\* the Review built from one container
ExtractRecord(container, selectors) ==
    LET title_elem == select_one(container, "title", selectors)
        rating_elem == select_one(container, "rating", selectors)
        rating_text == WidgetRatingText(TextOrDefault(rating_elem, FiveText))
        body_elem == select_one(container, "body", selectors)
        reviewer_elem == select_one(container, "reviewer", selectors)
        date_elem == select_one(container, "date", selectors)
    IN  [title |-> TextOrDefault(title_elem, ReviewTitle),
         body |-> TextOrDefault(body_elem, Strip(container.text)),
         rating |-> parse_rating(rating_text),
         reviewer |-> TextOrDefault(reviewer_elem, Anonymous),
         date |-> IF date_elem # NoElement THEN <<Strip(date_elem[1])>> ELSE NoDate]

\* the text of the element matched for a field in the i-th container
ElementText(letter, i) == <<" ", letter, DigitChar(i), " ">>

\* the sets of optional fields left out: none, one of them, all of them
MissingSets == {{}} \cup {{f} : f \in Fields} \cup {Fields}

PlainRatingTexts == { <<" ", "4", " ">>, OutOfText(3, 5) }

\* the i-th container with the fields of missing unmatched
MakeContainer(i, missing, rating_text, raises) ==
    [text     |-> ElementText("c", i),
     raises   |-> raises,
     title    |-> IF "title" \in missing THEN NoElement ELSE <<ElementText("t", i)>>,
     rating   |-> IF "rating" \in missing THEN NoElement ELSE <<rating_text>>,
     body     |-> IF "body" \in missing THEN NoElement ELSE <<ElementText("b", i)>>,
     reviewer |-> IF "reviewer" \in missing THEN NoElement ELSE <<ElementText("w", i)>>,
     date     |-> IF "date" \in missing THEN NoElement ELSE <<ElementText("d", i)>>]

\* what the i-th container of a document can be
ContainerChoices(i) ==
    { MakeContainer(i, {}, FiveText, TRUE) }
    \cup { MakeContainer(i, missing, t, FALSE) :
             missing \in MissingSets, t \in PlainRatingTexts }

RECURSIVE ContainerLists(_)
ContainerLists(n) ==
    IF n = 0 THEN { <<>> }
    ELSE { Append(cs, c) : cs \in ContainerLists(n - 1), c \in ContainerChoices(n) }

Document(parse_raises, containers) ==
    [parse_raises |-> parse_raises, containers |-> containers]

\* the documents with up to MaxDocContainers containers, and the one that
\* does not parse
PlainDocuments ==
    { Document(TRUE, <<>>) }
    \cup { Document(FALSE, cs) : cs \in UNION { ContainerLists(n) : n \in 0..MaxDocContainers } }

WidgetNames == { JudgeMe, <<"J", "u", "d", "g", "e", ".", "m", "e">> }

\* rating texts of the Judge.me widget: the name with "N out of M" or
\* "N Out Of M" after it, or with nothing
WidgetTexts ==
    { w \o <<" ">> \o ToText(N) \o <<" ">> \o o \o <<" ">> \o ToText(M) :
        w \in WidgetNames, N \in 0..MaxNumber, M \in 0..MaxNumber,
        o \in { OutOf, <<"O", "u", "t", " ", "O", "f">> } }
    \cup WidgetNames

\* one container whose rating element holds a text of the widget
WidgetDocuments ==
    { Document(FALSE, << MakeContainer(1, {}, t, FALSE) >>) : t \in WidgetTexts }

SelectorSets == { Fields \ missing : missing \in MissingSets }

ExtractInit ==
    /\ extract_pc = "parse"
    /\ \/ html_content \in PlainDocuments /\ review_selectors \in SelectorSets
       \/ html_content \in WidgetDocuments /\ review_selectors = Fields
    /\ container_index = 0
    /\ extract_reviews = <<>>
    /\ extract_ret = <<>>
    /\ extract_raised = FALSE
    /\ extract_log = 0

ExtractIdle ==
    /\ extract_pc = "idle"
    /\ html_content = <<>>
    /\ review_selectors = {}
    /\ container_index = 0
    /\ extract_reviews = <<>>
    /\ extract_ret = <<>>
    /\ extract_raised = FALSE
    /\ extract_log = 0

\* soup = BeautifulSoup(html_content, 'html.parser'); reviews = [];
\* containers = soup.select(selectors.container); a failure is logged and the
\* call returns []
ExtractParse ==
    /\ extract_pc = "parse"
    /\ IF html_content.parse_raises
       THEN /\ extract_ret' = << <<>> >>
            /\ extract_log' = extract_log + 1
            /\ extract_pc' = "done"
            /\ UNCHANGED <<container_index, extract_reviews>>
       ELSE /\ extract_reviews' = <<>>
            /\ container_index' = 1
            /\ extract_pc' = "loop"
            /\ UNCHANGED <<extract_ret, extract_log>>
    /\ UNCHANGED <<html_content, review_selectors, extract_raised, extractFrame>>

\* ExtractContainer without the inner try: the failure of a container reaches
\* the outer handler, which returns []
ExtractContainerNoInnerTry ==
    /\ extract_pc = "loop"
    /\ container_index <= Len(html_content.containers)
    /\ LET container == html_content.containers[container_index]
       IN  IF container.raises
           THEN /\ extract_ret' = << <<>> >>
                /\ extract_log' = extract_log + 1
                /\ extract_pc' = "done"
                /\ UNCHANGED <<container_index, extract_reviews>>
           ELSE /\ extract_reviews' =
                       Append(extract_reviews, ExtractRecord(container, review_selectors))
                /\ container_index' = container_index + 1
                /\ UNCHANGED <<extract_pc, extract_ret, extract_log>>
    /\ UNCHANGED <<html_content, review_selectors, extract_raised, extractFrame>>

\* one iteration of for container in containers: the Review is appended, or
\* the failure is logged and the loop continues with the next container
ExtractContainer ==
    /\ extract_pc = "loop"
    /\ container_index <= Len(html_content.containers)
    /\ LET container == html_content.containers[container_index]
       IN  IF container.raises
           THEN /\ extract_log' = extract_log + 1
                /\ UNCHANGED extract_reviews
           ELSE /\ extract_reviews' =
                       Append(extract_reviews, ExtractRecord(container, review_selectors))
                /\ UNCHANGED extract_log
    /\ container_index' = container_index + 1
    /\ UNCHANGED <<extract_pc, extract_ret, html_content, review_selectors,
                   extract_raised, extractFrame>>

\* return reviews
ExtractReturn ==
    /\ extract_pc = "loop"
    /\ container_index > Len(html_content.containers)
    /\ extract_ret' = <<extract_reviews>>
    /\ extract_pc' = "done"
    /\ UNCHANGED <<container_index, extract_reviews, extract_log, html_content,
                   review_selectors, extract_raised, extractFrame>>

NextExtract ==
    \/ ExtractParse
    \/ ExtractContainer
    \/ ExtractReturn

---------------------------------------------------------------------------
(* get_next_page_url: the Pagination Navigator, one call.                  *)
(* An element of the page holds its text, its href and which of its        *)
(* lookups raises (a stale element): "text", "href" or "none".             *)

\* element.text of the elements the navigator is run on
NavTexts ==
    LinkTexts \cup { <<">">>, <<">", ">">>, <<"F", "o", "r", "w", "a", "r", "d">> }

NavElements == [text : NavTexts, href : Hrefs, fails : {"none", "text", "href"}]

NavLists == UNION { [1..n -> NavElements] : n \in 0..MaxElements }

NavInit ==
    /\ nav_pc = "find"
    /\ nav_selector \in BOOLEAN
    /\ nav_find_raises \in BOOLEAN
    /\ nav_elements \in NavLists
    /\ (~nav_selector \/ nav_find_raises) => nav_elements = <<>>
    /\ nav_index = 0
    /\ nav_inspected = {}
    /\ nav_ret = <<>>
    /\ nav_raised = FALSE
    /\ nav_log = 0

NavIdle ==
    /\ nav_pc = "idle"
    /\ nav_selector = FALSE
    /\ nav_find_raises = FALSE
    /\ nav_elements = <<>>
    /\ nav_index = 0
    /\ nav_inspected = {}
    /\ nav_ret = <<>>
    /\ nav_raised = FALSE
    /\ nav_log = 0

\* the handler of the try block: the error is logged and None is returned
NavExcept ==
    /\ nav_log' = nav_log + 1
    /\ nav_ret' = <<NoHref>>
    /\ nav_pc' = "done"
    /\ UNCHANGED nav_index

\* pagination_elements = driver.find_elements(By.CSS_SELECTOR,
\* selectors.pagination); without a selector the lookup raises or finds nothing
NavFind ==
    /\ nav_pc = "find"
    /\ IF nav_find_raises
       THEN NavExcept
       ELSE /\ nav_index' = 1
            /\ nav_pc' = "loop"
            /\ UNCHANGED <<nav_ret, nav_log>>
    /\ UNCHANGED <<nav_selector, nav_find_raises, nav_elements, nav_inspected,
                   nav_raised, navFrame>>

\* NavInspect returning the href of the last forward element, not the first
NavInspectLastMatch ==
    /\ nav_pc = "loop"
    /\ nav_index <= Len(nav_elements)
    /\ nav_inspected' = nav_inspected \cup {nav_index}
    /\ LET element == nav_elements[nav_index]
       IN  IF element.fails = "text" THEN NavExcept
           ELSE IF /\ IsNextElement(element)
                   /\ \A m \in (nav_index + 1)..Len(nav_elements) :
                         ~IsNextElement(nav_elements[m])
           THEN IF element.fails = "href" THEN NavExcept
                ELSE /\ nav_ret' = <<element.href>>
                     /\ nav_pc' = "done"
                     /\ UNCHANGED <<nav_index, nav_log>>
           ELSE /\ nav_index' = nav_index + 1
                /\ UNCHANGED <<nav_pc, nav_ret, nav_log>>
    /\ UNCHANGED <<nav_selector, nav_find_raises, nav_elements, nav_raised,
                   navFrame>>

\* one iteration of for element in pagination_elements: the text is read and
\* tested, and the href of a forward element is returned
NavInspect ==
    /\ nav_pc = "loop"
    /\ nav_index <= Len(nav_elements)
    /\ nav_inspected' = nav_inspected \cup {nav_index}
    /\ LET element == nav_elements[nav_index]
       IN  IF element.fails = "text" THEN NavExcept
           ELSE IF IsNextElement(element)
           THEN IF element.fails = "href" THEN NavExcept
                ELSE /\ nav_ret' = <<element.href>>
                     /\ nav_pc' = "done"
                     /\ UNCHANGED <<nav_index, nav_log>>
           ELSE /\ nav_index' = nav_index + 1
                /\ UNCHANGED <<nav_pc, nav_ret, nav_log>>
    /\ UNCHANGED <<nav_selector, nav_find_raises, nav_elements, nav_raised,
                   navFrame>>

\* return None after the loop
NavReturnNone ==
    /\ nav_pc = "loop"
    /\ nav_index > Len(nav_elements)
    /\ nav_ret' = <<NoHref>>
    /\ nav_pc' = "done"
    /\ UNCHANGED <<nav_selector, nav_find_raises, nav_elements, nav_index,
                   nav_inspected, nav_raised, nav_log, navFrame>>

NextNav ==
    \/ NavFind
    \/ NavInspect
    \/ NavReturnNone

---------------------------------------------------------------------------
(* Two concurrent requests: get_reviews called twice, the steps of the two *)
(* calls interleaved in any order.  Each call has its own locals; a        *)
(* browser instance is created by each setup_driver() call.  The site is   *)
(* fixed: each page has its reviews and its next link, and one URL may be  *)
(* unreachable (driver.get raises for it).                                 *)

Calls == {1, 2}

\* driver = None
NoDriver == 0

Sites == [next : [URLs -> Hrefs], bad : Hrefs]

\* the locals of a call at its start
CallLocals(u, m) ==
    [pc |-> "setup", url |-> u, max_pages |-> m, driver |-> NoDriver,
     current_url |-> NoHref, page_count |-> 0, all_reviews |-> <<>>,
     outcome |-> "none", result |-> <<>>]

\* extract_reviews_with_selectors(driver.page_source, selectors) on the page
\* the browser shows (a blank page before the first driver.get)
PageReviews(page) ==
    IF page = NoHref THEN <<>>
    ELSE extract_reviews_with_selectors(page, MaxContainers, {}, FALSE)

\* get_next_page_url(driver, selectors) on the page the browser shows
PageNext(site, page) ==
    IF page = NoHref THEN NoHref
    ELSE get_next_page_url(
             << [text |-> <<"N", "e", "x", "t">>, href |-> site.next[page]] >>, FALSE)

\* the return statement after the loop
Returned(c) ==
    [c EXCEPT !.pc = "finally",
              !.outcome = "return",
              !.result = << [reviews_count |-> Len(c.all_reviews),
                             pages_processed |-> c.page_count + 1,
                             reviews |-> c.all_reviews] >>]

\* the outer handler: raise HTTPException(status_code=500)
Raised(c) == [c EXCEPT !.pc = "finally", !.outcome = "raise"]

\* while current_url and page_count < max_pages
LoopTest(c) ==
    IF c.current_url # NoHref /\ c.page_count < c.max_pages
    THEN [c EXCEPT !.pc = "extract"]
    ELSE Returned(c)

\* driver.get(current_url) and the wait for the body; page_count = 0
InitialGetStep(c, page, site) ==
    IF c.current_url = site.bad
    THEN [c |-> Raised(c), page |-> page]
    ELSE [c |-> LoopTest([c EXCEPT !.page_count = 0]), page |-> c.current_url]

\* reviews = extract_reviews_with_selectors(...); all_reviews.extend(reviews)
ExtractStep(c, page, site) ==
    [c |-> [c EXCEPT !.all_reviews = @ \o PageReviews(page), !.pc = "find_next"],
     page |-> page]

\* next_url = await get_next_page_url(...); break without one or on a
\* self-loop; current_url = next_url
FindNextStep(c, page, site) ==
    LET next_url == PageNext(site, page)
    IN  [c |-> IF next_url = NoHref \/ next_url = c.current_url
               THEN Returned(c)
               ELSE [c EXCEPT !.current_url = next_url, !.pc = "navigate"],
         page |-> page]

\* driver.get(current_url); a failure is logged and breaks; page_count += 1
NavigateStep(c, page, site) ==
    IF c.current_url = site.bad
    THEN [c |-> Returned(c), page |-> page]
    ELSE [c |-> LoopTest([c EXCEPT !.page_count = @ + 1]), page |-> c.current_url]

\* finally: driver.quit()
FinallyStep(c, page, site) == [c |-> [c EXCEPT !.pc = "done"], page |-> page]

TwinInit ==
    /\ twin_site \in Sites
    /\ twin_calls \in { [p \in Calls |-> CallLocals(us[p], ms[p])] :
                          us \in [Calls -> URLs], ms \in [Calls -> 1..MaxMaxPages] }
    /\ twin_browsers = <<>>

TwinIdle ==
    /\ twin_site = <<>>
    /\ twin_calls = <<>>
    /\ twin_browsers = <<>>

\* the browser call of p uses: the page it shows changes to page, and the
\* instance records the caller and a quit
Used(p, page, quit) ==
    [twin_browsers EXCEPT ![twin_calls[p].driver] =
        [@ EXCEPT !.page = page,
                  !.users = @ \cup {p},
                  !.quits = @ + (IF quit THEN 1 ELSE 0)]]

\* call p takes the step r on its browser
Takes(p, r, quit) ==
    /\ twin_calls' = [twin_calls EXCEPT ![p] = r.c]
    /\ twin_browsers' = Used(p, r.page, quit)
    /\ UNCHANGED <<twin_site, twinFrame>>

\* the page shown by the browser of call p
PageOf(p) == twin_browsers[twin_calls[p].driver].page

\* TwinSetup with driver a variable of the module, shared by the calls
TwinSetupShared ==
    \E p \in Calls :
        /\ twin_calls[p].pc = "setup"
        /\ twin_browsers' =
               Append(twin_browsers,
                      [owner |-> p, page |-> NoHref, users |-> {}, quits |-> 0])
        /\ twin_calls' =
               [q \in Calls |->
                   IF q = p
                   THEN [twin_calls[q] EXCEPT !.driver = Len(twin_browsers) + 1,
                                              !.current_url = twin_calls[q].url,
                                              !.pc = "initial_get"]
                   ELSE [twin_calls[q] EXCEPT !.driver = Len(twin_browsers) + 1]]
        /\ UNCHANGED <<twin_site, twinFrame>>

\* driver = setup_driver(); all_reviews = []; current_url = str(url)
TwinSetup ==
    \E p \in Calls :
        /\ twin_calls[p].pc = "setup"
        /\ twin_browsers' =
               Append(twin_browsers,
                      [owner |-> p, page |-> NoHref, users |-> {}, quits |-> 0])
        /\ twin_calls' =
               [twin_calls EXCEPT ![p] =
                   [@ EXCEPT !.driver = Len(twin_browsers) + 1,
                             !.current_url = twin_calls[p].url,
                             !.pc = "initial_get"]]
        /\ UNCHANGED <<twin_site, twinFrame>>

TwinInitialGet ==
    \E p \in Calls :
        /\ twin_calls[p].pc = "initial_get"
        /\ Takes(p, InitialGetStep(twin_calls[p], PageOf(p), twin_site), FALSE)

TwinExtract ==
    \E p \in Calls :
        /\ twin_calls[p].pc = "extract"
        /\ Takes(p, ExtractStep(twin_calls[p], PageOf(p), twin_site), FALSE)

TwinFindNext ==
    \E p \in Calls :
        /\ twin_calls[p].pc = "find_next"
        /\ Takes(p, FindNextStep(twin_calls[p], PageOf(p), twin_site), FALSE)

TwinNavigate ==
    \E p \in Calls :
        /\ twin_calls[p].pc = "navigate"
        /\ Takes(p, NavigateStep(twin_calls[p], PageOf(p), twin_site), FALSE)

TwinFinally ==
    \E p \in Calls :
        /\ twin_calls[p].pc = "finally"
        /\ Takes(p, FinallyStep(twin_calls[p], PageOf(p), twin_site), TRUE)

NextTwin ==
    \/ TwinSetup
    \/ TwinInitialGet
    \/ TwinExtract
    \/ TwinFindNext
    \/ TwinNavigate
    \/ TwinFinally

---------------------------------------------------------------------------
(* The specifications. *)

RestIdle == ExtractIdle /\ NavIdle /\ TwinIdle

\* one call of extract_reviews_with_selectors
InitExtract == ExtractInit /\ CrawlIdle /\ RatingIdle /\ OracleIdle /\ NavIdle /\ TwinIdle

SpecExtract == InitExtract /\ [][NextExtract]_vars

\* one call of get_next_page_url
InitNav == NavInit /\ CrawlIdle /\ RatingIdle /\ OracleIdle /\ ExtractIdle /\ TwinIdle

SpecNav == InitNav /\ [][NextNav]_vars

\* two calls of get_reviews with their steps interleaved
InitTwin == TwinInit /\ CrawlIdle /\ RatingIdle /\ OracleIdle /\ ExtractIdle /\ NavIdle

SpecTwin == InitTwin /\ [][NextTwin]_vars

\* one call of get_llm_selectors
InitOracle == OracleInit /\ CrawlIdle /\ RatingIdle /\ RestIdle

SpecOracle == InitOracle /\ [][NextOracle]_vars

\* calls of parse_rating on the rating texts
NextRating == ParseRating

InitRating == RatingInit /\ CrawlIdle /\ OracleIdle /\ RestIdle

SpecRating == InitRating /\ [][NextRating]_vars

\* one fetch-reviews request
Init == CrawlInit /\ RatingIdle /\ OracleIdle /\ RestIdle

Spec == Init /\ [][Next]_vars

\* one fetch-reviews request in which every call returns or raises: a step of
\* the handler that can be taken is eventually taken
SpecFair == Init /\ [][Next]_vars /\ WF_vars(Next)

---------------------------------------------------------------------------
(* Helpers of the properties. *)

\* the concatenation of a sequence of lists
RECURSIVE Flatten(_)
Flatten(ss) == IF ss = <<>> THEN <<>> ELSE Head(ss) \o Flatten(Tail(ss))

RECURSIVE Sum(_)
Sum(ns) == IF ns = <<>> THEN 0 ELSE Head(ns) + Sum(Tail(ns))

\* the records of all containers of the pages us, page us[i] holding ns[i]
\* containers, in page order and document order
RECURSIVE AllRecords(_, _)
AllRecords(us, ns) ==
    IF us = <<>> THEN <<>>
    ELSE RecordsFrom(Head(us), 1, Head(ns), {}) \o AllRecords(Tail(us), Tail(ns))

\* the steps of setup and of the initial navigation
SetupSteps == {"setup", "initial_get", "initial_wait"}

\* the next URL computed on the j-th page equals that page's URL
SelfLoopAt(j) == j \in 1..Len(nexts) /\ j <= Len(loaded) /\ nexts[j] = loaded[j]

\* no step of the request failed
NoFailure == log = {} /\ exc = "none"

\* the pages visited form a linear site: distinct URLs, each page but the
\* last linking to the following one, the last without a next link
LinearSite ==
    /\ Len(loaded) >= 1
    /\ Len(nexts) = Len(loaded)
    /\ Len(page_sources) = Len(loaded)
    /\ \A i, j \in 1..Len(loaded) : i # j => loaded[i] # loaded[j]
    /\ \A i \in 1..(Len(loaded) - 1) : nexts[i] = loaded[i + 1]
    /\ nexts[Len(nexts)] = NoHref

\* round half up of n / d for n >= 0, d > 0 (4.5 rounds to 5)
RoundHalfUp(n, d) == (2 * n + d) \div (2 * d)

\* clamp(v, 1, 5)
Clamp15(v) == Min(5, Max(1, v))

\* parse_rating was called on rating_arg and the call ended
RatingCalled == rating_ret # <<>> \/ rating_raised

\* the text holds a digit; the text holds a star glyph
HasDigit(t) == \E i \in 1..Len(t) : t[i] \in Digits

HasStar(t) == \E i \in 1..Len(t) : t[i] = Star

\* the texts "N out of 0" and "N/0": a scale of zero
ZeroScaleTexts ==
    { OutOfText(N, 0) : N \in 0..MaxNumber } \cup { FractionText(N, 0) : N \in 0..MaxNumber }


\* the indices of the containers whose extraction does not raise, in
\* document order
NonFailing(containers) ==
    LET Good(i) == ~containers[i].raises
    IN  SelectSeq([i \in 1..Len(containers) |-> i], Good)

\* the records of the non-failing containers, in document order
RECURSIVE ReviewsOf(_, _)
ReviewsOf(containers, selectors) ==
    IF containers = <<>> THEN <<>>
    ELSE (IF Head(containers).raises THEN <<>>
          ELSE <<ExtractRecord(Head(containers), selectors)>>)
         \o ReviewsOf(Tail(containers), selectors)

\* the field has no selector, or its selector matches nothing in the container
FieldAbsent(container, field) ==
    field \notin review_selectors \/ container[field] = NoElement

\* the extractor returned the list of a document that parsed
ExtractReturned ==
    extract_pc = "done" /\ ~html_content.parse_raises /\ Len(extract_ret) = 1

\* the rating text of the only container is the widget's name w followed by
\* N, the words o and M
IsWidgetText(w, N, o, M) ==
    /\ Len(html_content.containers) = 1
    /\ html_content.containers[1].rating =
           << w \o <<" ">> \o ToText(N) \o <<" ">> \o o \o <<" ">> \o ToText(M) >>

\* the lower-cased text contains "next", the glyphs U+203A or U+00BB (written
\* ">" and ">>") or "forward"
IsForward(text) ==
    \/ Contains(Lower(text), <<"n", "e", "x", "t">>)
    \/ Contains(Lower(text), <<">">>)
    \/ Contains(Lower(text), <<">", ">">>)
    \/ Contains(Lower(text), <<"f", "o", "r", "w", "a", "r", "d">>)

\* the loop of the navigator stops at element i: its text cannot be read, or
\* its text is a forward indicator
StopsAt(i) == nav_elements[i].fails = "text" \/ IsForward(nav_elements[i].text)

\* one step of a call on the browser page it sees
StepAlone(c, page, site) ==
    CASE c.pc = "initial_get" -> InitialGetStep(c, page, site)
      [] c.pc = "extract" -> ExtractStep(c, page, site)
      [] c.pc = "find_next" -> FindNextStep(c, page, site)
      [] c.pc = "navigate" -> NavigateStep(c, page, site)
      [] c.pc = "finally" -> FinallyStep(c, page, site)

RECURSIVE RunFrom(_, _, _)
RunFrom(c, page, site) ==
    IF c.pc = "done" THEN c
    ELSE LET r == StepAlone(c, page, site) IN RunFrom(r.c, r.page, site)

\* the locals at the end of get_reviews(u, m) run alone against the site, with
\* a browser of its own
RunAlone(u, m, site) ==
    RunFrom([CallLocals(u, m) EXCEPT !.driver = 1, !.current_url = u,
                                     !.pc = "initial_get"],
            NoHref, site)

---------------------------------------------------------------------------
(* The properties. *)

\* C1: on every successful return of get_reviews, pages_processed is at most
\* max_pages (stated for the page limits of at least one page).
PagesProcessedWithinLimit ==
    outcome = "return" /\ max_pages >= 1 => result.pages_processed <= max_pages

\* C2: for max_pages >= 1 the browser is navigated to at most max_pages pages
\* and the extractor is run on at most max_pages pages.
CrawlRespectsMaxPages ==
    max_pages >= 1 => Len(loaded) <= max_pages /\ Len(extracted) <= max_pages

\* C3: parse_rating returns an integer between 1 and 5 for every rating text.
RatingInRange ==
    rating_ret # <<>> => rating_ret[1] \in 1..5

\* C4: when the browser was acquired, quit is invoked exactly once before the
\* request ends, on every exit path, and the release step, failing or not,
\* leaves the outcome and the result as they were.
BrowserReleased ==
    /\ [](pc = "done" /\ driver => quit_calls = 1)
    /\ [](pc = "done" => outcome \in {"return", "raise"})
    /\ [][pc = "finally" =>
            /\ outcome' = outcome
            /\ result' = result
            /\ (driver => quit_calls' = quit_calls + 1)]_vars

\* a request whose browser release failed after a mid-crawl exception
BrowserReleasedWitness ==
    /\ pc = "done"
    /\ driver
    /\ quit_calls = 1
    /\ "close_browser" \in log
    /\ exc = "page_source"
    /\ outcome = "raise"

\* C5: once setup and the initial navigation succeeded, no later failure makes
\* get_reviews raise: it returns the records aggregated so far.
OnlySetupFailuresPropagate ==
    pc = "done" /\ exc \notin SetupSteps =>
        outcome = "return" /\ result.reviews = all_reviews

\* C6: when navigating to the next page raises, get_reviews returns the
\* records of the pages up to and including the current one, and extracts no
\* further page.
NavigationFailureEndsDone ==
    "navigate" \in log =>
        /\ pc \in {"return", "finally", "done"}
        /\ exc = "none"
        /\ Len(extracted) = Len(loaded)
        /\ Len(nexts) = Len(loaded)
        /\ all_reviews = Flatten(extracted)
        /\ pc = "done" =>
              /\ outcome = "return"
              /\ result.reviews = Flatten(extracted)
              /\ result.reviews_count = Len(Flatten(extracted))

\* a navigation failure on the way to the second page, with records returned
NavigationFailureWitness ==
    /\ pc = "done"
    /\ "navigate" \in log
    /\ Len(loaded) = 1
    /\ Len(nexts) = 1
    /\ nexts[1] # loaded[1]
    /\ result.reviews_count = MaxContainers

\* C7: when the next URL computed on a page equals the current URL, the crawl
\* ends at that page without navigating again, and pages_processed is the
\* number of pages visited.
LoopGuardTerminates ==
    \A j \in 1..Len(nexts) :
        SelfLoopAt(j) =>
            /\ Len(nexts) = j
            /\ Len(loaded) = j
            /\ Len(extracted) = j
            /\ pc \in {"return", "finally", "done"}
            /\ pc = "done" =>
                  outcome = "return" /\ result.pages_processed = Len(loaded)

\* a self-loop met on the second page
LoopGuardWitness ==
    /\ pc = "done"
    /\ Len(loaded) = 2
    /\ SelfLoopAt(2)
    /\ result.pages_processed = 2

\* C8: on a linear site of k <= max_pages pages, with no failing step,
\* get_reviews returns the records of pages 1..k in page order, their number
\* as reviews_count, and pages_processed = k; and with no failing step the
\* crawl stops before the site's last page only at the page limit.
EndToEndLinear ==
    pc = "done" /\ NoFailure =>
        /\ outcome = "return"
        /\ Len(extracted) = Len(loaded) \/ Len(extracted) >= max_pages
        /\ LinearSite =>
              /\ Len(loaded) <= max_pages
              /\ result.reviews = AllRecords(loaded, page_sources)
              /\ result.reviews_count = Sum(page_sources)
              /\ result.pages_processed = Len(loaded)

\* a two-page linear site with containers on both pages
EndToEndWitness ==
    /\ pc = "done"
    /\ NoFailure
    /\ LinearSite
    /\ Len(loaded) = 2
    /\ page_sources = <<MaxContainers, 1>>
    /\ result.reviews_count = MaxContainers + 1
    /\ result.pages_processed = 2

\* C9: get_llm_selectors never raises; it returns the default selectors on a
\* failed probe, a failed request, a status other than 200 and a body that
\* does not decode into valid selectors, and what the body decodes into
\* otherwise.
OracleNeverRaises ==
    oracle_pc = "done" =>
        /\ oracle_outcome = "return"
        /\ Len(oracle_ret) = 1
        /\ IF /\ response # NoResponse
              /\ response.status_code = 200
              /\ Decodes(response.body)
           THEN oracle_ret[1] = Decoded(response.body) /\ log = {}
           ELSE oracle_ret[1] = get_default_selectors /\ log # {}

\* the service answered 200 with valid selectors that are not the default
OracleWitness ==
    /\ oracle_pc = "done"
    /\ response # NoResponse
    /\ oracle_ret[1] # get_default_selectors
    /\ oracle_ret[1].pagination = "a.next"

\* C10: a failure of browser setup or of the initial navigation makes
\* get_reviews raise the service error, with no result, and neither the
\* extractor nor the navigator is run.
SetupFailureFails ==
    exc \in SetupSteps =>
        /\ pc \in {"except", "finally", "done"}
        /\ result = NoResult
        /\ page_sources = <<>>
        /\ extracted = <<>>
        /\ nexts = <<>>
        /\ pc = "done" => outcome = "raise"

\* the wait for the page body timed out and the request ended
SetupFailureWitness ==
    /\ pc = "done"
    /\ exc = "initial_wait"
    /\ outcome = "raise"
    /\ driver
    /\ quit_calls = 1

\* C11: for all integers N, M with 0 < N <= M, parse_rating of "N out of M"
\* and of "N/M" returns clamp(round(N*5/M), 1, 5), where round takes a half
\* upwards as in the spec's round(9/2) = 5.
ScaleRatingRoundsHalfUp ==
    \A N, M \in 1..MaxNumber :
        (N <= M /\ rating_arg \in {OutOfText(N, M), FractionText(N, M)} /\ RatingCalled)
            => rating_ret = <<Clamp15(RoundHalfUp(5 * N, M))>>

\* C12: for a numeric-only text whose value n exceeds 5, parse_rating returns
\* round(n/2) clamped to [1,5], where round(9/2) = 5.
NumericAboveFiveHalved ==
    \A n \in 6..MaxNumber :
        (rating_arg = ToText(n) /\ RatingCalled)
            => rating_ret = <<Clamp15(RoundHalfUp(n, 2))>>

\* C13: parse_rating never raises, and it returns the default 5 for empty or
\* blank text, for text with neither a digit nor a star glyph, and for text
\* whose parse fails, a scale of zero included.
ParseRatingNeverRaises ==
    /\ ~rating_raised
    /\ ( /\ rating_ret # <<>>
         /\ \/ Strip(rating_arg) = <<>>
            \/ ~HasDigit(rating_arg) /\ ~HasStar(rating_arg)
            \/ rating_arg \in ZeroScaleTexts
            \/ ParseRatingTry(rating_arg).kind = "raise" )
       => rating_ret = <<DefaultRating>>

\* parse_rating("3 out of 0") divided by zero and returned the default
ParseRatingWitness ==
    /\ rating_arg = OutOfText(3, 0)
    /\ ParseRatingTry(rating_arg).kind = "raise"
    /\ rating_ret = <<DefaultRating>>
    /\ ~rating_raised

\* C14: the extractor never raises; for a document that parses it returns
\* exactly one record for each non-failing container, in document order,
\* whichever containers fail; with no container or a document-level parse
\* failure it returns the empty list.
ExtractIsolatesFailures ==
    /\ ~extract_raised
    /\ extract_pc = "done" =>
        /\ Len(extract_ret) = 1
        /\ LET containers == html_content.containers
               good == NonFailing(containers)
               reviews == extract_ret[1]
           IN  IF html_content.parse_raises \/ containers = <<>>
               THEN reviews = <<>>
               ELSE /\ Len(reviews) = Len(good)
                    /\ \A k \in 1..Len(good) :
                          reviews[k] = ExtractRecord(containers[good[k]], review_selectors)
    /\ extract_pc = "loop" =>
          extract_reviews =
              ReviewsOf(SubSeq(html_content.containers, 1, container_index - 1),
                        review_selectors)

\* the first of two containers failed and the record of the second was returned
ExtractIsolatesWitness ==
    /\ extract_pc = "done"
    /\ Len(html_content.containers) = 2
    /\ html_content.containers[1].raises
    /\ ~html_content.containers[2].raises
    /\ extract_log = 1
    /\ Len(extract_ret[1]) = 1
    /\ extract_ret[1][1].title = Strip(ElementText("t", 2))

\* C17: for each non-failing container a record is produced; a field whose
\* selector is absent or matches nothing in the container has its default
\* (title "Review", reviewer "Anonymous", body the container's text, date
\* null, rating 5); and the records of the sibling containers are those the
\* extractor returns when the field is present in the container.
OptionalFieldDefaults ==
    ExtractReturned =>
        LET containers == html_content.containers
            good == NonFailing(containers)
            reviews == extract_ret[1]
        IN  /\ Len(reviews) = Len(good)
            /\ \A k \in 1..Len(good) :
                  LET c == containers[good[k]]
                      r == reviews[k]
                  IN  /\ FieldAbsent(c, "title") => r.title = ReviewTitle
                      /\ FieldAbsent(c, "reviewer") => r.reviewer = Anonymous
                      /\ FieldAbsent(c, "body") => r.body = Strip(c.text)
                      /\ FieldAbsent(c, "date") => r.date = NoDate
                      /\ FieldAbsent(c, "rating") => r.rating = 5
            /\ \A j \in 1..Len(containers) : \A f \in Fields :
                  containers[j][f] = NoElement =>
                      LET present == [containers EXCEPT ![j][f] = <<ElementText("x", j)>>]
                          others == ReviewsOf(present, review_selectors)
                      IN  /\ Len(others) = Len(reviews)
                          /\ \A k \in 1..Len(good) :
                                good[k] # j => others[k] = reviews[k]

\* the first container has no date element, the second has every field, and
\* both records were returned
OptionalFieldWitness ==
    /\ ExtractReturned
    /\ review_selectors = Fields
    /\ Len(html_content.containers) = 2
    /\ html_content.containers[1].date = NoElement
    /\ html_content.containers[1].title # NoElement
    /\ html_content.containers[2].date # NoElement
    /\ Len(extract_ret[1]) = 2
    /\ extract_ret[1][1].date = NoDate
    /\ extract_ret[1][2].date = <<Strip(ElementText("d", 2))>>

\* C18: when the matched rating text holds the widget name, in any letter
\* case, and "N out of M" with 0 < N <= M, the record's rating is
\* clamp(round(N*5/M), 1, 5) for every scale M; when it holds no "N out of M"
\* the rating is 5.
WidgetRatingScaled ==
    ExtractReturned =>
        /\ \A w \in WidgetNames : \A N, M \in 1..MaxNumber :
              (N <= M /\ IsWidgetText(w, N, OutOf, M))
                  => /\ Len(extract_ret[1]) = 1
                     /\ extract_ret[1][1].rating = Clamp15(RoundHalfUp(5 * N, M))
        /\ ( /\ Len(html_content.containers) = 1
             /\ \E w \in WidgetNames : html_content.containers[1].rating = <<w>> )
               => /\ Len(extract_ret[1]) = 1
                  /\ extract_ret[1][1].rating = 5

\* C16: get_next_page_url never raises; it returns the href of the first
\* element, in match order, whose lower-cased text contains a forward
\* indicator, having read the text of no later element; it returns None when
\* no element matches, when there is no pagination selector and when a lookup
\* raises.
NavigatorFirstMatch ==
    /\ ~nav_raised
    /\ nav_pc = "done" =>
        /\ Len(nav_ret) = 1
        /\ nav_ret[1] = get_next_page_url(nav_elements, nav_log > 0)
        /\ (nav_log > 0 \/ ~nav_selector) => nav_ret[1] = NoHref
        /\ IF \E i \in 1..Len(nav_elements) : StopsAt(i)
           THEN LET k == CHOOSE i \in 1..Len(nav_elements) :
                           StopsAt(i) /\ \A m \in 1..(i - 1) : ~StopsAt(m)
                IN  /\ nav_inspected = 1..k
                    /\ nav_ret[1] = IF nav_elements[k].fails = "none"
                                    THEN nav_elements[k].href
                                    ELSE NoHref
                    /\ nav_log = IF nav_elements[k].fails = "none" THEN 0 ELSE 1
           ELSE /\ nav_inspected = 1..Len(nav_elements)
                /\ nav_ret[1] = NoHref
                /\ nav_log = IF nav_find_raises THEN 1 ELSE 0

\* of two forward elements the href of the first was returned and the second
\* was not inspected
NavigatorWitness ==
    /\ nav_pc = "done"
    /\ Len(nav_elements) = 2
    /\ nav_elements[1].text = <<"N", "e", "x", "t">>
    /\ nav_elements[1].href = 1
    /\ nav_elements[2].text = <<">">>
    /\ nav_elements[2].href = 2
    /\ nav_ret = <<1>>
    /\ nav_inspected = {1}

\* C19: for every link structure the site reveals (chains, self-loops, cycles
\* such as A to B to A) and every max_pages, zero and negative included, the
\* extractor is run at most max(max_pages, 0) times, and when every call
\* returns or raises the request ends, returning or raising.
CrawlTerminates ==
    /\ [](Len(extracted) <= Max(max_pages, 0))
    /\ [](Len(page_sources) <= Max(max_pages, 0))
    /\ [](pc = "done" => outcome \in {"return", "raise"})
    /\ <>(pc = "done")

\* the site links A to B and B back to A, and the request ended at the page
\* limit after two extractions
CrawlTerminatesWitness ==
    /\ pc = "done"
    /\ outcome = "return"
    /\ max_pages = 2
    /\ loaded = <<1, 2, 1>>
    /\ nexts = <<2, 1>>
    /\ Len(extracted) = 2

\* C20: on every successful return, pages_processed is the number of pages
\* the browser loaded, the first page and one for each next-page navigation
\* that completed, and reviews_count is the length of the returned list.
PagesProcessedCountsLoads ==
    outcome = "return" =>
        /\ result.pages_processed = Len(loaded)
        /\ result.pages_processed = 1 + page_count
        /\ result.reviews_count = Len(result.reviews)
        /\ result.reviews = Flatten(extracted)

\* the second navigation failed after one that completed: two pages loaded
PagesProcessedWitness ==
    /\ pc = "done"
    /\ outcome = "return"
    /\ "navigate" \in log
    /\ Len(loaded) = 2
    /\ Len(nexts) = 2
    /\ result.pages_processed = 2

\* C15: with the steps of two calls interleaved in any order, each call uses
\* and quits only the browser instance it acquired, and its outcome and its
\* result are those it produces when run alone against the same site.
CallsIndependent ==
    /\ \A b \in 1..Len(twin_browsers) :
          /\ twin_browsers[b].users \subseteq {twin_browsers[b].owner}
          /\ twin_browsers[b].quits <= 1
    /\ \A p \in Calls :
          LET c == twin_calls[p]
          IN  /\ c.driver # NoDriver => twin_browsers[c.driver].owner = p
              /\ c.pc \in {"extract", "find_next"} => PageOf(p) = c.current_url
              /\ c.pc = "done" =>
                    LET alone == RunAlone(c.url, c.max_pages, twin_site)
                    IN  /\ c.outcome = alone.outcome
                        /\ c.result = alone.result
                        /\ twin_browsers[c.driver].quits = 1

\* the first call returned two pages while the second call, on a browser of
\* its own, is in the middle of its loop on another page
CallsIndependentWitness ==
    /\ twin_calls[1].pc = "done"
    /\ twin_calls[1].outcome = "return"
    /\ twin_calls[1].result[1].pages_processed = 2
    /\ twin_calls[2].pc = "find_next"
    /\ twin_calls[2].page_count = 1
    /\ twin_calls[2].url # twin_calls[1].url
    /\ twin_calls[2].driver # twin_calls[1].driver
    /\ twin_calls[2].all_reviews # twin_calls[1].all_reviews

====
